---- MODULE Spec2Model ----
(***************************************************************************)
(* SlimSynth: the joystick firmware (OscilloscopeControl.ino) as a state   *)
(* machine, one action per pass of loop(), together with the host's        *)
(* control ingestion as the specification describes it.                    *)
(*                                                                         *)
(* Time is the millis() clock.  delay(n) advances it by exactly n ms and   *)
(* the statements between two delays take no time.                         *)
(***************************************************************************)
EXTENDS Integers, Sequences, FiniteSets, TLC

(***************************************************************************)
(* Bounds of the model.                                                    *)
(***************************************************************************)
\* passes of loop() explored from power-up
MaxIter == 22
\* changes of level the button pin can make between two samples
MaxBounce == 2
\* passes before which the pin changed level more than once
MaxGlitches == 1
\* lines the host can have queued in one polling pass
MaxQueue == 3
\* passes of loop() explored when the sweep is followed to its slowest reset
MaxSweepIter == 955
\* passes of loop() before the millis() wrap at which the wrap is taken up
MaxWrapLead == 4
MaxAdjusted == 1
\* samples per second of the engine, scaled down from 44100
SampleRate == 250

\* positions <<X reading, Y reading>> the joystick is found in in the full model
JoyPositions == {<<0, 1023>>, <<1023, 300>>}

(***************************************************************************)
(* Program constants.                                                      *)
(***************************************************************************)
HIGH == 1
LOW == 0
sendInterval == 20
DebounceDelayShort == 200 \div 10
DebounceDelay == 200
LoopDelay == 5
SetupDelay == 1000
AdcMax == 1023
FreqStart == 100
FreqLimit == 2000
SpeedMin == 2
SpeedMax == 100
NumWaveforms == 8
TwoTo16 == 65536

(***************************************************************************)
(* Machine arithmetic.                                                     *)
(***************************************************************************)
\* unsigned long: 32 bits, held as <<high half, low half>>, arithmetic
\* modulo 2^32
Uint32(n) == <<(n \div TwoTo16) % TwoTo16, n % TwoTo16>>

Add32(a, b) ==
  LET lo == a[2] + b[2]
  IN <<(a[1] + b[1] + (lo \div TwoTo16)) % TwoTo16, lo % TwoTo16>>

Sub32(a, b) ==
  LET lo == a[2] - b[2]
  IN <<(a[1] - b[1] - (IF lo < 0 THEN 1 ELSE 0)) % TwoTo16, lo % TwoTo16>>

\* a >= b on unsigned long
Geq32(a, b) == a[1] > b[1] \/ (a[1] = b[1] /\ a[2] >= b[2])

\* milliseconds of an unsigned long below 2^31 (larger ones read as 2^31-1)
Millis(a) == IF a[1] < TwoTo16 \div 2 THEN a[1] * TwoTo16 + a[2] ELSE 2147483647

\* int on the AVR target: 16 bits, two's complement
Int16(v) == ((v + (TwoTo16 \div 2)) % TwoTo16) - (TwoTo16 \div 2)

\* C integer division truncates toward zero
TruncDiv(a, b) ==
  IF (a >= 0) = (b > 0) THEN (IF a >= 0 THEN a ELSE -a) \div (IF b > 0 THEN b ELSE -b)
  ELSE -((IF a >= 0 THEN a ELSE -a) \div (IF b > 0 THEN b ELSE -b))

\* Arduino map(): (x - in_min) * (out_max - out_min) / (in_max - in_min) + out_min
map(x, in_min, in_max, out_min, out_max) ==
  TruncDiv((x - in_min) * (out_max - out_min), in_max - in_min) + out_min

\* delay(ms) as seen by millis()
Delay(t, ms) == Add32(t, Uint32(ms))

(***************************************************************************)
(* Serial output: Serial.print(int) writes the decimal digits, println     *)
(* appends CR LF.  A line is the sequence of characters written.           *)
(***************************************************************************)
Digits == <<"0", "1", "2", "3", "4", "5", "6", "7", "8", "9">>
Comma == ","
CR == "\r"
LF == "\n"

RECURSIVE PrintNat(_)
PrintNat(n) ==
  IF n < 10 THEN <<Digits[n + 1]>>
  ELSE PrintNat(n \div 10) \o <<Digits[(n % 10) + 1]>>

\* Serial.print(int)
PrintInt(n) == IF n < 0 THEN <<"-">> \o PrintNat(-n) ELSE PrintNat(n)

\* Serial.println(int)
PrintlnInt(n) == PrintInt(n) \o <<CR, LF>>

PacketLineAxesSwapped(f, x, y, w) ==
  PrintInt(f) \o <<Comma>> \o PrintInt(y) \o <<Comma>> \o PrintInt(x)
    \o <<Comma>> \o PrintlnInt(w)

\* the seven print calls of one transmission
PacketLine(f, x, y, w) ==
  PrintInt(f) \o <<Comma>> \o PrintInt(x) \o <<Comma>> \o PrintInt(y)
    \o <<Comma>> \o PrintlnInt(w)

(***************************************************************************)
(* The host's reading of a line, as the specification describes it: the    *)
(* line terminator is dropped, the rest is split at the commas, and a line *)
(* is well formed when that gives four decimal integers.                   *)
(***************************************************************************)
RECURSIVE StripLine(_)
StripLine(line) ==
  IF line # <<>> /\ line[Len(line)] \in {CR, LF}
  THEN StripLine(SubSeq(line, 1, Len(line) - 1))
  ELSE line

RECURSIVE SplitFields(_)
SplitFields(chars) ==
  IF \E i \in 1..Len(chars) : chars[i] = Comma
  THEN LET i == CHOOSE j \in 1..Len(chars) :
                  chars[j] = Comma /\ \A h \in 1..(j - 1) : chars[h] # Comma
       IN <<SubSeq(chars, 1, i - 1)>> \o SplitFields(SubSeq(chars, i + 1, Len(chars)))
  ELSE <<chars>>

IsDigit(c) == \E d \in 1..10 : Digits[d] = c

DigitValue(c) == (CHOOSE d \in 1..10 : Digits[d] = c) - 1

IsNat(field) == field # <<>> /\ \A i \in 1..Len(field) : IsDigit(field[i])

IsInt(field) ==
  IF field # <<>> /\ field[1] = "-" THEN IsNat(Tail(field)) ELSE IsNat(field)

RECURSIVE NatOf(_)
NatOf(field) ==
  IF field = <<>> THEN 0
  ELSE 10 * NatOf(SubSeq(field, 1, Len(field) - 1)) + DigitValue(field[Len(field)])

IntOf(field) == IF field[1] = "-" THEN -NatOf(Tail(field)) ELSE NatOf(field)

WellFormed(line) ==
  LET fields == SplitFields(StripLine(line))
  IN Len(fields) = 4 /\ \A i \in 1..4 : IsInt(fields[i])

ParseLine(line) ==
  LET fields == SplitFields(StripLine(line))
  IN [frequency |-> IntOf(fields[1]), axisX |-> IntOf(fields[2]),
      axisY |-> IntOf(fields[3]), waveform |-> IntOf(fields[4])]

(***************************************************************************)
(* The steps of loop().                                                    *)
(***************************************************************************)
ButtonPressedLevel(joyButtonState, lastState) == joyButtonState = LOW

ButtonPressedAnyEdge(joyButtonState, lastState) == joyButtonState # lastState

\* line 22: a press is a LOW sample after a HIGH stored sample
ButtonPressed(joyButtonState, lastState) ==
  joyButtonState = LOW /\ lastState = HIGH

NextWaveformNoWrap(w) == Int16(w + 1)

NextWaveformSkip(w) == Int16(w + 2) % NumWaveforms

NextWaveformMod7(w) == Int16(w + 1) % (NumWaveforms - 1)

\* line 23
NextWaveform(w) == Int16(w + 1) % NumWaveforms

SweepSpeedOfFromZero(x) == map(x, 0, AdcMax, 0, SpeedMax)

SweepSpeedOfAdc1024(x) == map(x, 0, AdcMax + 1, SpeedMin, SpeedMax)

\* line 45
SweepSpeedOf(x) == map(x, 0, AdcMax, SpeedMin, SpeedMax)

SendDueEveryPass(currentTime, lastSend) == TRUE

SendDueNoWrap(currentTime, lastSend) ==
  Geq32(currentTime, Add32(lastSend, Uint32(sendInterval)))

\* line 49: unsigned long difference against the send interval
SendDue(currentTime, lastSend) ==
  Geq32(Sub32(currentTime, lastSend), Uint32(sendInterval))

SweepUpdateNoReset(f, speed) == Int16(f + speed)

\* lines 61-64
SweepUpdate(f, speed) ==
  IF Int16(f + speed) > FreqLimit THEN FreqStart ELSE Int16(f + speed)

(***************************************************************************)
(* State.                                                                  *)
(***************************************************************************)
VARIABLES
  freq, waveformType, lastJoyButtonState, lastSendTime, \* firmware globals
  xValue, sweepSpeed,              \* locals of the last pass of loop()
  now,                             \* millis()
  joyButton,                       \* level of pin 2 when it was last sampled
  sent,                            \* packets written in the last pass: the
                                   \* line, and what was read when and why
  iter,                            \* passes of loop() explored
  presses,                         \* HIGH-to-LOW transitions of pin 2
  glitches,                        \* passes before which pin 2 changed more than once
  edges,                           \* passes that sampled LOW after HIGH
  advances,                        \* executions of line 23
  lastTxAt,                        \* time of the last transmission, NoTime: none
  advAge,                          \* ms since the last advance, -1: none
  lastTxWave,                      \* waveform field of the last transmission, -1: none
  sinceReset,                      \* passes since freq last fell back
  rxQueue, ctl, prior, lastPass, polled,  \* host side: control ingestion
  staging, pending, filled,        \* control context: the update being written
  published, everPublished,        \* the snapshot on offer, and all there were
  grabbed, params, rpc, block,     \* render context: snapshot taken, fields read,
                                   \* position, parameters of the last block
  fx, lastKey,                     \* effect parameters, the last command
  writeIdx, readIdx, offset        \* circular buffers of the delay-style effects:
                                   \* next write, last read, delay in samples

fwVars == <<freq, waveformType, lastJoyButtonState, lastSendTime,
            xValue, sweepSpeed, now, joyButton, sent,
            iter, presses, glitches, edges, advances, lastTxAt, advAge,
            lastTxWave, sinceReset>>
ingestVars == <<rxQueue, ctl, prior, lastPass, polled>>
snapVars == <<staging, pending, filled, published, everPublished,
              grabbed, params, rpc, block>>
keyVars == <<fx, lastKey>>
bufVars == <<writeIdx, readIdx, offset>>
hostVars == <<ingestVars, snapVars, keyVars, bufVars>>
vars == <<fwVars, hostVars>>

(***************************************************************************)
(* The environment: what the button pin does between two samples.          *)
(***************************************************************************)
\* the level after k changes starting from level
Toggled(level, k) == IF k % 2 = 0 THEN level ELSE 1 - level

\* HIGH-to-LOW transitions among k changes starting from level
Falls(level, k) == IF level = HIGH THEN (k + 1) \div 2 ELSE k \div 2

\* no transmission yet
NoTime == <<>>

\* milliseconds from an earlier event to t, -1 when there was none
Since(earlier, t) == IF earlier = NoTime THEN -1 ELSE Millis(Sub32(t, earlier))

\* ages of the last advance are followed up to this many ms
AgeCap == DebounceDelay + 2 * LoopDelay

Aged(age, ms) ==
  IF age = -1 THEN -1 ELSE IF age + ms > AgeCap THEN AgeCap ELSE age + ms

(***************************************************************************)
(* Power-up: the globals as initialised, setup() has returned.             *)
(***************************************************************************)
HostDefaults == [frequency |-> 100, axisX |-> 512, axisY |-> 512, waveform |-> 0]

InitFirmware ==
  /\ freq = FreqStart
  /\ waveformType = 0
  /\ lastJoyButtonState = HIGH
  /\ lastSendTime = Uint32(0)
  /\ xValue = 0 /\ sweepSpeed = 0
  /\ now = Uint32(SetupDelay)
  /\ joyButton = HIGH
  /\ sent = <<>>
  /\ iter = 0
  /\ presses = 0 /\ glitches = 0 /\ edges = 0 /\ advances = 0
  /\ lastTxAt = NoTime /\ advAge = -1
  /\ lastTxWave = -1 /\ sinceReset = 0

\* the parameters the render context works from: target frequency in Hz,
\* filter cutoff in tenths, waveform
SnapshotFields == <<"targetFrequencyHz", "filterCutoff", "waveform">>

SnapshotDefaults == [targetFrequencyHz |-> 100, filterCutoff |-> 10, waveform |-> 0]

InitIngest ==
  /\ rxQueue = <<>>
  /\ ctl = HostDefaults
  /\ prior = HostDefaults
  /\ lastPass = <<>>
  /\ polled = FALSE

InitSnapshot ==
  /\ staging = SnapshotDefaults
  /\ pending = SnapshotDefaults
  /\ filled = 0
  /\ published = SnapshotDefaults
  /\ everPublished = {SnapshotDefaults}
  /\ grabbed = SnapshotDefaults
  /\ params = SnapshotDefaults
  /\ rpc = 0
  /\ block = SnapshotDefaults

\* Keyboard Effect Matrix; values, bounds and steps in hundredths
EffectMatrix ==
  << [upper |-> "H", lower |-> "h", effect |-> "harmonics",    lo |-> 0,   hi |-> 100,  step |-> 10],
     [upper |-> "D", lower |-> "d", effect |-> "distortion",   lo |-> 0,   hi |-> 100,  step |-> 10],
     [upper |-> "C", lower |-> "c", effect |-> "chorusDepth",  lo |-> 0,   hi |-> 100,  step |-> 10],
     [upper |-> "R", lower |-> "r", effect |-> "chorusRate",   lo |-> 10,  hi |-> 1000, step |-> 50],
     [upper |-> "B", lower |-> "b", effect |-> "bitDepth",     lo |-> 400, hi |-> 1600, step |-> 100],
     [upper |-> "L", lower |-> "l", effect |-> "filterCutoff", lo |-> 10,  hi |-> 100,  step |-> 10],
     [upper |-> "E", lower |-> "e", effect |-> "reverb",       lo |-> 0,   hi |-> 100,  step |-> 10],
     [upper |-> "Y", lower |-> "y", effect |-> "delayMix",     lo |-> 0,   hi |-> 80,   step |-> 10],
     [upper |-> "T", lower |-> "t", effect |-> "delayTime",    lo |-> 5,   hi |-> 100,  step |-> 5],
     [upper |-> "M", lower |-> "m", effect |-> "ringModFreq",  lo |-> 0,   hi |-> 1000, step |-> 50],
     [upper |-> "O", lower |-> "o", effect |-> "tremoloDepth", lo |-> 0,   hi |-> 100,  step |-> 10],
     [upper |-> "P", lower |-> "p", effect |-> "tremoloRate",  lo |-> 50,  hi |-> 2000, step |-> 100],
     [upper |-> "A", lower |-> "a", effect |-> "phaserDepth",  lo |-> 0,   hi |-> 100,  step |-> 10],
     [upper |-> "V", lower |-> "v", effect |-> "volume",       lo |-> 5,   hi |-> 80,   step |-> 5] >>

Rows == 1..Len(EffectMatrix)

Effects == { EffectMatrix[i].effect : i \in Rows }

\* the values the engine starts with and the reset command restores
EffectDefaults ==
  [e \in Effects |->
     CASE e = "chorusRate" -> 100
       [] e = "bitDepth" -> 1600
       [] e = "filterCutoff" -> 100
       [] e = "delayTime" -> 30
       [] e = "tremoloRate" -> 500
       [] e = "volume" -> 30
       [] OTHER -> 0]

NoKey == [key |-> "", effect |-> "", before |-> 0]

InitKeys ==
  /\ fx = EffectDefaults
  /\ lastKey = NoKey

\* every effect buffer holds one second of samples
Capacity == SampleRate

MsToSamples(ms) == (ms * SampleRate) \div 1000

\* the buffers of the delay-style effects and the delays they are read at,
\* in samples: phaser 2-10 ms, chorus 2-12 ms, delay 0.05-1.0 s in steps of
\* 0.05 s, reverb combs at 29, 37, 41 and 43 ms
Buffers == {"phaser", "chorus", "delay", "comb29", "comb37", "comb41", "comb43"}

DelayRow == EffectMatrix[CHOOSE i \in Rows : EffectMatrix[i].effect = "delayTime"]

OffsetLo(b) ==
  CASE b = "phaser" -> MsToSamples(2)
    [] b = "chorus" -> MsToSamples(2)
    [] b = "delay" -> MsToSamples(DelayRow.lo * 10)
    [] b = "comb29" -> MsToSamples(29)
    [] b = "comb37" -> MsToSamples(37)
    [] b = "comb41" -> MsToSamples(41)
    [] b = "comb43" -> MsToSamples(43)

OffsetHi(b) ==
  CASE b = "phaser" -> MsToSamples(10)
    [] b = "chorus" -> MsToSamples(12)
    [] b = "delay" -> MsToSamples(DelayRow.hi * 10)
    [] OTHER -> OffsetLo(b)

\* how far the delay of a buffer moves between two samples: the LFO of
\* phaser and chorus by a sample, the delay time by its key step
OffsetStep(b) ==
  CASE b = "phaser" -> 1
    [] b = "chorus" -> 1
    [] b = "delay" -> MsToSamples(DelayRow.step * 10)
    [] OTHER -> 0

InitBuffers ==
  /\ writeIdx = [b \in Buffers |-> 0]
  /\ readIdx = [b \in Buffers |-> 0]
  /\ offset = [b \in Buffers |->
                 IF b = "delay" THEN MsToSamples(EffectDefaults["delayTime"] * 10)
                 ELSE OffsetLo(b)]

InitHost ==
  /\ InitIngest
  /\ InitSnapshot
  /\ InitKeys
  /\ InitBuffers

Init == InitFirmware /\ InitHost

(***************************************************************************)
(* One pass of loop().  k: the changes of level pin 2 made since it was    *)
(* last sampled; x1, y1: what analogRead returns at lines 26-27; x2, y2:   *)
(* what it returns at lines 41-42.                                         *)
(***************************************************************************)
Pass(k, x1, y1, x2, y2) ==
  LET joyButtonState == Toggled(joyButton, k)
      pressed == ButtonPressed(joyButtonState, lastJoyButtonState)
      wave == IF pressed THEN NextWaveform(waveformType) ELSE waveformType
      pressPkt ==
        IF pressed
        THEN <<[line |-> PacketLine(freq, x1, y1, wave), at |-> now,
                f |-> freq, x |-> x1, y |-> y1, w |-> wave, kind |-> "press",
                gap |-> Since(lastTxAt, now), prevW |-> lastTxWave]>>
        ELSE <<>>
      tPress == IF pressed THEN now ELSE lastTxAt
      currentTime == IF pressed THEN Delay(now, DebounceDelay) ELSE now
      speed == SweepSpeedOf(x2)
      due == SendDue(currentTime, lastSendTime)
      periodicPkt ==
        IF due
        THEN <<[line |-> PacketLine(freq, x2, y2, wave), at |-> currentTime,
                f |-> freq, x |-> x2, y |-> y2, w |-> wave, kind |-> "periodic",
                gap |-> Since(tPress, currentTime),
                prevW |-> IF pressed THEN wave ELSE lastTxWave]>>
        ELSE <<>>
      endTime == Delay(currentTime, LoopDelay)
  IN /\ glitches + (IF k > 1 THEN 1 ELSE 0) <= MaxGlitches
     /\ pressed \/ (x1 = x2 /\ y1 = y2)
     /\ waveformType' = wave
     /\ lastJoyButtonState' = joyButtonState
     /\ xValue' = x2
     /\ sweepSpeed' = speed
     /\ lastSendTime' = IF due THEN currentTime ELSE lastSendTime
     /\ freq' = SweepUpdate(freq, speed)
     /\ now' = endTime
     /\ sent' = pressPkt \o periodicPkt
     /\ lastTxAt' = IF due THEN currentTime ELSE tPress
     /\ joyButton' = joyButtonState
     /\ iter' = iter + 1
     /\ presses' = presses + Falls(joyButton, k)
     /\ glitches' = glitches + (IF k > 1 THEN 1 ELSE 0)
     /\ edges' = edges + (IF joyButton = HIGH /\ joyButtonState = LOW THEN 1 ELSE 0)
     /\ advances' = advances + (IF pressed THEN 1 ELSE 0)
     /\ advAge' = Aged(IF pressed THEN 0 ELSE advAge, Millis(Sub32(endTime, now)))
     /\ lastTxWave' = IF pressed \/ due THEN wave ELSE lastTxWave
     /\ sinceReset' = IF freq' < freq THEN 0 ELSE sinceReset + 1
     /\ UNCHANGED hostVars

\* a pass within the passes explored from power-up
Loop(k, x1, y1, x2, y2) == iter < MaxIter /\ Pass(k, x1, y1, x2, y2)

Iterate ==
  \E k \in 0..MaxBounce, p1 \in JoyPositions, p2 \in JoyPositions :
    Loop(k, p1[1], p1[2], p2[1], p2[2])

Next == Iterate

Spec == Init /\ [][Next]_vars

(***************************************************************************)
(* The sweep alone: the button is left alone and the stick is held where   *)
(* the first pass finds it, anywhere on the X axis.                        *)
(***************************************************************************)
Hold ==
  \E x \in 0..AdcMax :
    /\ iter = 0 \/ x = xValue
    /\ Loop(0, x, AdcMax - x, x, AdcMax - x)

NextMap == Hold

SpecMap == Init /\ [][NextMap]_vars

(***************************************************************************)
(* The sweep followed for long: the button is left alone, the stick moves  *)
(* freely between its positions for the first MaxIter passes and is held   *)
(* where it is from then on.                                               *)
(***************************************************************************)
Sweep ==
  \E p \in JoyPositions :
    /\ iter < MaxSweepIter
    /\ iter < MaxIter \/ p[1] = xValue
    /\ Pass(0, p[1], p[2], p[1], p[2])

NextSweep == Sweep

SpecSweep == Init /\ [][NextSweep]_vars

(***************************************************************************)
(* The millis() wrap: the firmware 49.7 days after power-up, between two   *)
(* passes, freq just reset, up to MaxWrapLead passes before millis() goes  *)
(* from 2^32-1 to 0, with the last periodic packet 5 to 20 ms back.  The   *)
(* stick is held, the button is free.                                      *)
(***************************************************************************)
InitWrap ==
  \E lead \in 0..MaxWrapLead, phase \in 1..(sendInterval \div LoopDelay),
     p \in JoyPositions :
    /\ now = <<TwoTo16 - 1, TwoTo16 - 1 - LoopDelay * lead>>
    /\ lastSendTime = Sub32(now, Uint32(LoopDelay * phase))
    /\ lastTxAt = lastSendTime
    /\ lastTxWave = 0
    /\ freq = FreqStart
    /\ waveformType = 0
    /\ lastJoyButtonState = HIGH
    /\ joyButton = HIGH
    /\ xValue = p[1] /\ sweepSpeed = SweepSpeedOf(p[1])
    /\ sent = <<>>
    /\ iter = 0
    /\ presses = 0 /\ glitches = 0 /\ edges = 0 /\ advances = 0
    /\ advAge = -1 /\ sinceReset = 0
    /\ InitHost

AcrossWrap ==
  \E k \in 0..MaxBounce, p \in JoyPositions :
    /\ p[1] = xValue
    /\ Loop(k, p[1], p[2], p[1], p[2])

NextWrap == AcrossWrap

SpecWrap == InitWrap /\ [][NextWrap]_vars

(***************************************************************************)
(* The host's control ingestion, as the specification describes it: lines  *)
(* queue up as they arrive, and a polling pass works through the queue in  *)
(* arrival order, each well-formed line replacing the control state.       *)
(***************************************************************************)
\* "250,512,300,3\n"
ExampleLine ==
  <<"2", "5", "0", Comma, "5", "1", "2", Comma, "3", "0", "0", Comma, "3", LF>>

\* "garbage\n"
GarbageLine == <<"g", "a", "r", "b", "a", "g", "e", LF>>

\* "100,512,0\r\n", the three fields the potentiometer sketch writes
ThreeFieldLine ==
  PrintInt(100) \o <<Comma>> \o PrintInt(512) \o <<Comma>> \o PrintlnInt(0)

\* "100,abc,300,3\n"
WordFieldLine ==
  <<"1", "0", "0", Comma, "a", "b", "c", Comma, "3", "0", "0", Comma, "3", LF>>

\* the lines that arrive, each with the fields it stands for (none: malformed)
RxSamples ==
  { [chars |-> ExampleLine, fields |-> <<250, 512, 300, 3>>],
    [chars |-> PacketLine(2000, 0, 1023, 7), fields |-> <<2000, 0, 1023, 7>>],
    [chars |-> PacketLine(100, 1023, 0, 0), fields |-> <<100, 1023, 0, 0>>],
    [chars |-> GarbageLine, fields |-> <<>>],
    [chars |-> ThreeFieldLine, fields |-> <<>>],
    [chars |-> WordFieldLine, fields |-> <<>>] }

RxLines == {r.chars : r \in RxSamples}

ApplyLinesFirstWins(state, queue) ==
  IF \E i \in 1..Len(queue) : WellFormed(queue[i])
  THEN ParseLine(queue[CHOOSE i \in 1..Len(queue) :
                         /\ WellFormed(queue[i])
                         /\ \A j \in 1..(i - 1) : ~WellFormed(queue[j])])
  ELSE state

RECURSIVE ApplyLines(_, _)
ApplyLines(state, queue) ==
  IF queue = <<>> THEN state
  ELSE ApplyLines(IF WellFormed(Head(queue)) THEN ParseLine(Head(queue)) ELSE state,
                  Tail(queue))

\* a complete line has been received
Arrive ==
  \E line \in RxLines :
    /\ Len(rxQueue) < MaxQueue
    /\ rxQueue' = Append(rxQueue, line)
    /\ polled' = FALSE
    /\ prior' = ctl
    /\ lastPass' = <<>>
    /\ UNCHANGED <<ctl, fwVars, snapVars, keyVars, bufVars>>

\* one polling pass over everything queued
PollPass ==
  /\ ctl' = ApplyLines(ctl, rxQueue)
  /\ prior' = ctl
  /\ lastPass' = rxQueue
  /\ rxQueue' = <<>>
  /\ polled' = TRUE
  /\ UNCHANGED <<fwVars, snapVars, keyVars, bufVars>>

NextIngest == Arrive \/ PollPass

SpecIngest == Init /\ [][NextIngest]_vars

(***************************************************************************)
(* Control context and render context, as the specification describes     *)
(* them: the control context writes an update field by field into a        *)
(* snapshot of its own and publishes the finished snapshot in one step;    *)
(* the render context takes the published snapshot in one step at the      *)
(* start of a block and reads its fields from what it took.                *)
(***************************************************************************)
SnapshotUpdates ==
  { [targetFrequencyHz |-> 250, filterCutoff |-> 5, waveform |-> 3],
    [targetFrequencyHz |-> 2000, filterCutoff |-> 1, waveform |-> 7] }

\* control context: write the next field of an update
WriteField ==
  \E u \in SnapshotUpdates :
    /\ filled < Len(SnapshotFields)
    /\ filled = 0 \/ u = pending
    /\ pending' = u
    /\ staging' = [staging EXCEPT ![SnapshotFields[filled + 1]] =
                                     u[SnapshotFields[filled + 1]]]
    /\ filled' = filled + 1
    /\ UNCHANGED <<published, everPublished, grabbed, params, rpc, block>>
    /\ UNCHANGED <<fwVars, ingestVars, keyVars, bufVars>>

\* control context: publish the finished snapshot
Publish ==
  /\ filled = Len(SnapshotFields)
  /\ published' = staging
  /\ everPublished' = everPublished \cup {staging}
  /\ filled' = 0
  /\ UNCHANGED <<staging, pending, grabbed, params, rpc, block>>
  /\ UNCHANGED <<fwVars, ingestVars, keyVars, bufVars>>

\* render context: take the published snapshot for the block
Grab ==
  /\ rpc = 0
  /\ grabbed' = published
  /\ rpc' = 1
  /\ UNCHANGED <<staging, pending, filled, published, everPublished, params, block>>
  /\ UNCHANGED <<fwVars, ingestVars, keyVars, bufVars>>

RenderSourceShared == staging

\* where the render context reads its fields: the snapshot it took
RenderSource == grabbed

\* render context: read the next field
ReadField ==
  /\ rpc \in 1..Len(SnapshotFields)
  /\ params' = [params EXCEPT ![SnapshotFields[rpc]] = RenderSource[SnapshotFields[rpc]]]
  /\ rpc' = rpc + 1
  /\ UNCHANGED <<staging, pending, filled, published, everPublished, grabbed, block>>
  /\ UNCHANGED <<fwVars, ingestVars, keyVars, bufVars>>

\* render context: render the block with the fields read
RenderBlock ==
  /\ rpc = Len(SnapshotFields) + 1
  /\ block' = params
  /\ rpc' = 0
  /\ UNCHANGED <<staging, pending, filled, published, everPublished, grabbed, params>>
  /\ UNCHANGED <<fwVars, ingestVars, keyVars, bufVars>>

RenderStep == Grab \/ ReadField \/ RenderBlock

NextSnapshot == WriteField \/ Publish \/ Grab \/ ReadField \/ RenderBlock

SpecSnapshot == Init /\ [][NextSnapshot]_vars

(***************************************************************************)
(* Keyboard-equivalent effect control: an uppercase key adds the step of   *)
(* its row, the lowercase key subtracts it, and the result is clamped to   *)
(* the row's range where it enters the effect parameters.  SPACE restores  *)
(* the defaults.                                                           *)
(***************************************************************************)
ClampNone(v, lo, hi) == v

Clamp(v, lo, hi) == IF v < lo THEN lo ELSE IF v > hi THEN hi ELSE v

KeyChars == { EffectMatrix[i].upper : i \in Rows } \cup { EffectMatrix[i].lower : i \in Rows }

\* the value of the key's parameter after the command
Adjusted(c, v) ==
  LET i == CHOOSE j \in Rows : c \in {EffectMatrix[j].upper, EffectMatrix[j].lower}
      row == EffectMatrix[i]
      raw == IF c = row.upper THEN v + row.step ELSE v - row.step
  IN  Clamp(raw, row.lo, row.hi)

EffectOfKey(c) ==
  EffectMatrix[CHOOSE j \in Rows : c \in {EffectMatrix[j].upper, EffectMatrix[j].lower}].effect

AdjustedCount(f) == Cardinality({ e \in Effects : f[e] # EffectDefaults[e] })

KeyCommand ==
  \E c \in KeyChars :
    LET e == EffectOfKey(c) IN
    /\ fx' = [fx EXCEPT ![e] = Adjusted(c, fx[e])]
    /\ AdjustedCount(fx') <= MaxAdjusted
    /\ lastKey' = [key |-> c, effect |-> e, before |-> fx[e]]
    /\ UNCHANGED <<fwVars, ingestVars, snapVars, bufVars>>

ResetAll ==
  /\ fx' = EffectDefaults
  /\ lastKey' = [key |-> " ", effect |-> "", before |-> 0]
  /\ UNCHANGED <<fwVars, ingestVars, snapVars, bufVars>>

NextKeys == KeyCommand \/ ResetAll

SpecKeys == Init /\ [][NextKeys]_vars

(***************************************************************************)
(* Circular buffers of the delay-style effects.  Each sample is read at    *)
(* the write index minus the delay, wrapped into the buffer, then written  *)
(* at the write index, which advances modulo the capacity.                 *)
(***************************************************************************)
\* remainder of a truncating division, of the sign of a
CRem(a, b) == a - b * TruncDiv(a, b)

NextWriteIndex(w, cap) == CRem(w + 1, cap)

ReadIndexNoWrap(w, off, cap) == CRem(w - off, cap)

ReadIndex(w, off, cap) == CRem(CRem(w - off, cap) + cap, cap)

\* the delays the buffer can be read at for the next sample
OffsetMoves(b, o) ==
  { Clamp(o - OffsetStep(b), OffsetLo(b), OffsetHi(b)), o,
    Clamp(o + OffsetStep(b), OffsetLo(b), OffsetHi(b)) }

\* one sample through phaser, chorus, delay and reverb
ProcessSample ==
  \E po \in OffsetMoves("phaser", offset["phaser"]),
     co \in OffsetMoves("chorus", offset["chorus"]),
     dl \in OffsetMoves("delay", offset["delay"]) :
    /\ offset' = [offset EXCEPT !["phaser"] = po, !["chorus"] = co, !["delay"] = dl]
    /\ readIdx' = [b \in Buffers |-> ReadIndex(writeIdx[b], offset'[b], Capacity)]
    /\ writeIdx' = [b \in Buffers |-> NextWriteIndex(writeIdx[b], Capacity)]
    /\ UNCHANGED <<fwVars, ingestVars, snapVars, keyVars>>

NextBuffers == ProcessSample

SpecBuffers == Init /\ [][NextBuffers]_vars

(***************************************************************************)
(* Properties of the firmware.                                             *)
(***************************************************************************)
\* the lines written in the last pass
SentLines == {sent[i].line : i \in DOMAIN sent}

\* C1: the frequency field of every transmitted packet, periodic or
\* press-triggered, lies in [100, 2000].
C1_FrequencyFieldInRange ==
  \A i \in DOMAIN sent :
    /\ WellFormed(sent[i].line)
    /\ ParseLine(sent[i].line).frequency \in 100..2000

\* a press-triggered packet carries the upper end of the range
C1_Witness ==
  \E i \in DOMAIN sent :
    sent[i].kind = "press" /\ ParseLine(sent[i].line).frequency = 2000

\* C2: every transmitted line is four comma-separated integers, in the
\* order frequency, X reading, Y reading, waveform, ended by the line
\* terminator, and the X and Y fields are the ADC readings unchanged.
C2_PacketFormat ==
  \A i \in DOMAIN sent :
    LET line == sent[i].line
        fields == SplitFields(StripLine(line))
    IN /\ line[Len(line)] = LF
       /\ Cardinality({j \in 1..Len(line) : line[j] = LF}) = 1
       /\ Len(fields) = 4
       /\ \A j \in 1..4 : IsNat(fields[j])
       /\ NatOf(fields[1]) = sent[i].f
       /\ NatOf(fields[2]) = sent[i].x
       /\ NatOf(fields[3]) = sent[i].y
       /\ NatOf(fields[4]) = sent[i].w
       /\ sent[i].w = waveformType
       /\ sent[i].x \in 0..1023
       /\ sent[i].y \in 0..1023

\* a pass that wrote a press packet and a periodic packet with different
\* readings on the two axes
C2_Witness ==
  /\ Len(sent) = 2
  /\ sent[1].kind = "press" /\ sent[2].kind = "periodic"
  /\ sent[1].x # sent[1].y
  /\ sent[1].x # sent[2].x
  /\ sent[1].y # sent[2].y

\* C3: waveformType is always in 0..7 and so is the waveform field of every
\* transmitted packet.
C3_WaveformInRange ==
  /\ waveformType \in 0..7
  /\ \A i \in DOMAIN sent :
       /\ WellFormed(sent[i].line)
       /\ ParseLine(sent[i].line).waveform \in 0..7

\* the eighth press has wrapped the waveform and its packet says so
C3_Witness ==
  /\ advances = 8
  /\ \E i \in DOMAIN sent :
       sent[i].kind = "press" /\ ParseLine(sent[i].line).waveform = 0

\* C4: a detected press takes waveformType from w to (w+1) mod 8 and nothing
\* else changes it, so the waveform is back at its starting value exactly
\* when the number of detected presses is a multiple of eight.
C4_ModuloCycle ==
  /\ []((waveformType = 0) <=> (advances % 8 = 0))
  /\ [][/\ advances' = advances + 1 => waveformType' = (waveformType + 1) % 8
        /\ waveformType' # waveformType => advances' = advances + 1]_vars

\* eight presses detected, the waveform is where it started
C4_Witness == advances = 8 /\ waveformType = 0 /\ lastJoyButtonState = LOW

\* C5 as stated: every HIGH-to-LOW transition of the button pin gives
\* exactly one advance, so the advances number as many as the presses.
C5_AdvancesEqualPresses == advances = presses

\* C5 as amended: every pass that samples LOW after a HIGH sample advances
\* exactly once, so the advances number as many as those sampled
\* transitions, and never more than the transitions of the pin.
C5_AdvancesEqualSampledEdges == advances = edges /\ advances <= presses

\* one press was detected and one transition of the pin fell between samples
C5_Witness == advances = 1 /\ edges = 1 /\ presses = 2

\* C6: the time from one transmission to the next never exceeds the send
\* interval plus one loop period, 25 ms.
C6_TransmissionGapBounded ==
  /\ \A i \in DOMAIN sent : sent[i].gap <= 25
  /\ Since(lastTxAt, now) <= 25

\* C7: two advances of waveformType are at least 200 ms apart: no pass
\* advances while the last advance is less than 200 ms old, whatever the
\* pin did in between.
C7_DebounceLockout ==
  [][advances' # advances /\ advAge # -1 => advAge >= 200]_vars

\* a second advance, after a transition of the pin that fell inside the
\* lockout and was passed over
C7_Witness == advances = 2 /\ presses = 3 /\ glitches = 1 /\ advAge = 205

\* C8: in the pass in which the increment brings freq to 2000 or above,
\* freq is set to 100.
C8_ResetOnReaching2000 ==
  [][iter' = iter + 1 /\ freq + sweepSpeed' >= 2000 => freq' = 100]_vars

\* C9: the increment is map(x,0,1023,2,100) = 2 + floor(98*x/1023), in
\* [2,100], non-decreasing in x, 2 at x = 0 and 100 at x = 1023, and freq
\* grows by exactly that amount in a pass that does not reset it.
C9_SweepSpeedMap ==
  /\ [](iter > 0 =>
          /\ sweepSpeed = 2 + ((98 * xValue) \div 1023)
          /\ sweepSpeed \in 2..100
          /\ xValue = 0 => sweepSpeed = 2
          /\ xValue = 1023 => sweepSpeed = 100
          /\ xValue > 0 => SweepSpeedOf(xValue - 1) <= sweepSpeed)
  /\ [][iter' = iter + 1 /\ freq' # 100 =>
          freq' = freq + 2 + ((98 * xValue') \div 1023)]_vars

\* the stick at the top of the X axis, two passes in
C9_Witness == iter = 2 /\ xValue = 1023 /\ sweepSpeed = 100 /\ freq = 300

\* C14: waveformType changes only in a pass whose sample is LOW while the
\* stored sample is HIGH: it does not change while the button stays LOW from
\* one sample to the next, nor in any pass that samples HIGH.
C14_EdgeTriggered ==
  [][waveformType' # waveformType =>
       /\ joyButton' = LOW
       /\ lastJoyButtonState = HIGH
       /\ joyButton = HIGH
       /\ advances' = advances + 1]_vars

\* one press, then the button held LOW for two more passes: one advance
C14_Witness ==
  /\ iter = 3 /\ presses = 1 /\ glitches = 0
  /\ joyButton = LOW /\ lastJoyButtonState = LOW
  /\ advances = 1 /\ waveformType = 1

\* C15: an advance is followed in the same pass, before the debounce delay
\* and the frequency update, by a packet with the new waveform, and the
\* waveform fields of two consecutive packets are equal or one step apart
\* modulo 8.
C15_PressPacketCarriesNewWaveform ==
  /\ [](\A i \in DOMAIN sent :
          LET w == ParseLine(sent[i].line).waveform
          IN \/ sent[i].prevW = -1
             \/ w = sent[i].prevW
             \/ w = (sent[i].prevW + 1) % 8)
  /\ [][advances' = advances + 1 =>
          /\ sent' # <<>>
          /\ sent'[1].kind = "press"
          /\ sent'[1].w = waveformType'
          /\ waveformType' # waveformType
          /\ sent'[1].at = now
          /\ sent'[1].f = freq]_vars

\* a press packet one step on from the packet before it, and the periodic
\* packet of the same pass repeating it
C15_Witness ==
  /\ Len(sent) = 2
  /\ sent[1].kind = "press" /\ sent[1].prevW = 0 /\ sent[1].w = 1
  /\ sent[2].kind = "periodic" /\ sent[2].prevW = 1
  /\ ParseLine(sent[2].line).waveform = 1

\* C16 as stated: two consecutive transmissions, periodic or
\* press-triggered, are at least 20 ms apart.
C16_AllGapsAtLeastInterval ==
  \A i \in DOMAIN sent : sent[i].gap = -1 \/ sent[i].gap >= 20

\* C16 as amended: a periodic transmission comes at least 20 ms after the
\* transmission before it; a press-triggered one is sent at once, no less
\* than one loop period of 5 ms after the transmission before it.
C16_PeriodicGapsAtLeastInterval ==
  \A i \in DOMAIN sent :
    \/ sent[i].gap = -1
    \/ sent[i].kind = "periodic" /\ sent[i].gap >= 20
    \/ sent[i].kind = "press" /\ sent[i].gap >= 5

\* a press packet 5 ms after a periodic one, and the periodic packet that
\* follows it after the debounce delay
C16_Witness ==
  /\ Len(sent) = 2
  /\ sent[1].kind = "press" /\ sent[1].gap = 5
  /\ sent[2].kind = "periodic" /\ sent[2].gap = 200

\* C17: freq strictly increases in every pass that does not reset it, and
\* a reset to 100 comes within at most 951 passes of any reachable state.
C17_SweepProgress ==
  /\ [](sinceReset <= 950)
  /\ [][iter' = iter + 1 =>
          \/ freq' > freq
          \/ freq' = 100 /\ freq' < freq /\ sinceReset' = 0]_vars

\* the slowest sweep: 950 passes took freq from 100 to 2000, and the 951st
\* has reset it
C17_Witness ==
  /\ freq = 100 /\ sinceReset = 0 /\ iter = 951
  /\ xValue = 0 /\ sweepSpeed = 2

\* C18: the periodic test is taken modulo 2^32, so across the wrap of
\* millis() a periodic packet is sent once 20 ms have passed since the last
\* one and not before: transmissions neither stall nor burst.
C18_PeriodicAcrossWrap ==
  /\ Since(lastTxAt, now) <= 20
  /\ \A i \in DOMAIN sent :
       sent[i].kind = "periodic" =>
         /\ sent[i].gap >= 20
         /\ Len(sent) = 1 => sent[i].gap = 20

\* the first periodic packet after the wrap, 20 ms after one sent before it
C18_Witness ==
  /\ Len(sent) = 1
  /\ sent[1].kind = "periodic"
  /\ sent[1].at[1] = 0 /\ sent[1].at[2] < 20
  /\ sent[1].gap = 20
  /\ now[1] = 0

(***************************************************************************)
(* Properties of the host's control ingestion.                             *)
(***************************************************************************)
\* the fields a received line stands for, <<>> for a malformed one
FieldsOf(line) == (CHOOSE r \in RxSamples : r.chars = line).fields

\* C10: after a polling pass the control state holds the fields of the last
\* well-formed line of the pass, in arrival order; malformed lines are
\* passed over, and a pass with none but malformed lines leaves the state
\* as it was.
C10_LastValidLineWins ==
  polled =>
    LET valid == {i \in 1..Len(lastPass) : FieldsOf(lastPass[i]) # <<>>}
    IN IF valid = {}
       THEN ctl = prior
       ELSE LET last == CHOOSE i \in valid : \A j \in valid : j <= i
                fields == FieldsOf(lastPass[last])
            IN ctl = [frequency |-> fields[1], axisX |-> fields[2],
                      axisY |-> fields[3], waveform |-> fields[4]]

\* a pass over two different well-formed lines and then "garbage": the
\* second one stands
C10_Witness ==
  /\ polled
  /\ Len(lastPass) = 3
  /\ lastPass[1] = PacketLine(2000, 0, 1023, 7)
  /\ lastPass[2] = ExampleLine
  /\ lastPass[3] = GarbageLine
  /\ ctl = [frequency |-> 250, axisX |-> 512, axisY |-> 300, waveform |-> 3]
  /\ prior # ctl

(***************************************************************************)
(* Properties of the engine's contexts, parameters and buffers.            *)
(***************************************************************************)
\* C11: every block is rendered with a parameter set equal to one complete
\* published update, possibly a stale one, never a mix of two, and the
\* render context always has a step it can take, whatever the control
\* context is doing.
C11_NoTornSnapshot ==
  /\ block \in everPublished
  /\ rpc = Len(SnapshotFields) + 1 => params \in everPublished
  /\ ENABLED RenderStep

\* a block rendered from an update that has since been replaced, while the
\* control context is half way through writing yet another
C11_Witness ==
  /\ block \in SnapshotUpdates
  /\ published \in SnapshotUpdates
  /\ block # published
  /\ filled = 1
  /\ staging \notin everPublished

\* C12: after any sequence of key commands from the defaults every effect
\* parameter is inside the range of its row, and a command that pushes
\* outwards at a bound (uppercase at the upper bound, lowercase at the
\* lower bound) leaves the value at that bound.
C12_EffectParametersInRange ==
  /\ \A i \in Rows :
       /\ fx[EffectMatrix[i].effect] >= EffectMatrix[i].lo
       /\ fx[EffectMatrix[i].effect] <= EffectMatrix[i].hi
  /\ \A i \in Rows :
       /\ lastKey.key = EffectMatrix[i].upper /\ lastKey.before = EffectMatrix[i].hi
            => fx[EffectMatrix[i].effect] = EffectMatrix[i].hi
       /\ lastKey.key = EffectMatrix[i].lower /\ lastKey.before = EffectMatrix[i].lo
            => fx[EffectMatrix[i].effect] = EffectMatrix[i].lo

\* a decrease issued with the chorus rate at its lower bound 0.1, reached
\* from the default by steps of 0.5 and one clamped step
C12_Witness ==
  /\ lastKey.key = "r"
  /\ lastKey.before = 10
  /\ fx["chorusRate"] = 10

\* C13: for every buffer of phaser, chorus, delay and reverb, after any
\* number of samples and for every admissible delay, the write index and
\* the read index are in [0, capacity); the write index advances as
\* (index + 1) mod capacity.
C13_BufferIndicesInRange ==
  /\ [](\A b \in Buffers :
          /\ writeIdx[b] >= 0 /\ writeIdx[b] < Capacity
          /\ readIdx[b] >= 0 /\ readIdx[b] < Capacity
          /\ offset[b] >= OffsetLo(b) /\ offset[b] <= OffsetHi(b))
  /\ [][\A b \in Buffers : writeIdx'[b] = (writeIdx[b] + 1) % Capacity]_bufVars

\* the write index has wrapped to 0, and the delay buffer, read a full
\* second back, was read at index minus offset below zero, wrapped to the
\* last slot
C13_Witness ==
  /\ writeIdx["delay"] = 0
  /\ offset["delay"] = Capacity
  /\ readIdx["delay"] = Capacity - 1
  /\ readIdx["comb43"] = Capacity - 1 - MsToSamples(43)

====
